---- MODULE Spec2Model ----
(***************************************************************************)
(* The rolling synthetic crime-assignment engine of                        *)
(* cj_pipeline/synthetic_assignment.py: the unobserved-count estimator,    *)
(* the weighted sampler, the window assembler, the rolling driver and the  *)
(* cache gate.                                                             *)
(*                                                                         *)
(* Numbers.  Rates (arrest rate, lambda, lam, omega, rate multipliers) are *)
(* rationals written as integers in thousandths (RateDen).  A data frame   *)
(* is a sequence of records, one per row, in the frame's row order.        *)
(***************************************************************************)
EXTENDS Integers, Sequences, FiniteSets, TLC

\* thousandths: the unit of int(v * 1000) in _rate2string
RateDen == 1000

\* the missing value a left merge leaves where no rate row matches
NaN == -1000000

\* lam=None
NoLam == -2000000

\* rate_mult_ncvs=None / rate_mult_nsduh=None
NoMult == <<"None">>

----------------------------------------------------------------------------
(* State *)

VARIABLES
  est,     \* one _add_unobserved call: its inputs, position and result
  world,   \* what the cohort and rate providers return, per year
  disk,    \* the cache directory: file path -> file content
  proc     \* per process: the get_synth call it is in

vars == <<est, world, disk, proc>>

----------------------------------------------------------------------------
(* Arithmetic of the estimator and the sampler *)

\* numpy's round() of the rational p/q (q > 0): to nearest, ties to even
RoundHalfEven(p, q) ==
  LET f == p \div q
      r == p % q
  IN  IF 2 * r < q THEN f
      ELSE IF 2 * r > q THEN f + 1
      ELSE IF f % 2 = 0 THEN f ELSE f + 1

\* Python's int() of the rational p/q (q > 0): truncation toward zero
IntTrunc(p, q) == IF p >= 0 THEN p \div q ELSE -((-p) \div q)

RECURSIVE SeqSum(_)
SeqSum(s) == IF s = <<>> THEN 0 ELSE Head(s) + SeqSum(Tail(s))

RECURSIVE Flatten(_)
Flatten(ss) == IF ss = <<>> THEN <<>> ELSE Head(ss) \o Flatten(Tail(ss))

Range(s) == {s[i] : i \in DOMAIN s}

IndexOf(s, x) == CHOOSE i \in DOMAIN s : s[i] = x

\* pop[arrest_col] > 0, False for NaN
RatePositive(arrest) == arrest # NaN /\ arrest > 0

----------------------------------------------------------------------------
(* The column universes, each in the sort order of its values *)

\* CRIMES: the offense categories, in column order
CRIMES == <<"assault", "dui">>

\* the categories the self-report survey governs
NsduhCats == {"dui", "drugs_use", "drugs_sell"}

DemoSeq == <<"f", "m">>
AgeCatSeq == <<"18-29", "< 18", "> 29">>
CatSeq == <<"assault", "dui">>

\* every grouping key <<demo, age_cat, offense_category>>, sorted as groupby sorts
AllKeys ==
  Flatten([i \in 1..Len(DemoSeq) |->
    Flatten([j \in 1..Len(AgeCatSeq) |->
      [k \in 1..Len(CatSeq) |-> <<DemoSeq[i], AgeCatSeq[j], CatSeq[k]>>]])])

\* group_all of a melted row
KeyOf(row) == <<row.demo, row.age_cat, row.cat>>

\* the keys of df, sorted: the groups of df.groupby(group_all)
GroupKeys(df) == SelectSeq(AllKeys, LAMBDA k : \E i \in DOMAIN df : KeyOf(df[i]) = k)

RowsOf(df, key) == SelectSeq(df, LAMBDA r : KeyOf(r) = key)

----------------------------------------------------------------------------
(* _count_unobserved *)

\* a variant that extrapolates by the arrest rate alone
TotalCrimesArrestOnly(offense_count, arrest, lambda, lam) ==
  IF RatePositive(arrest)
  THEN RoundHalfEven(offense_count * RateDen, arrest)
  ELSE offense_count

\* a variant whose fallback drops the observed count
TotalCrimesFallbackZero(offense_count, arrest, lambda, lam) ==
  IF RatePositive(arrest)
  THEN RoundHalfEven(offense_count * (IF lam = NoLam THEN lambda ELSE lam), arrest)
  ELSE 0

\* obs / arrest * (lambda column, or lam when given), where arrest > 0;
\* the observed count otherwise; rounded
TotalCrimes(offense_count, arrest, lambda, lam) ==
  IF RatePositive(arrest)
  THEN RoundHalfEven(offense_count * (IF lam = NoLam THEN lambda ELSE lam), arrest)
  ELSE offense_count

\* one row of offenses after _count_unobserved; unobserved_per_person is the
\* rational unobserved_crimes / pop_size
CountUnobserved(pop, lam, lambda_col) ==
  LET total == TotalCrimes(pop.offense_count, pop.arrest_rate_smooth, pop[lambda_col], lam)
  IN  [key |-> pop.key,
       offense_count |-> pop.offense_count,
       pop_size |-> pop.pop_size,
       arrest_rate_smooth |-> pop.arrest_rate_smooth,
       lambda |-> pop.lambda,
       lambda_smooth |-> pop.lambda_smooth,
       total_crimes |-> total,
       unobserved_crimes |-> total - pop.offense_count]

\* unobserved_per_person is NaN: 0 / 0
PerPersonIsNaN(o) == o.pop_size = 0 /\ o.unobserved_crimes = 0

----------------------------------------------------------------------------
(* The random stream.  np.random.RandomState(seed) is a deterministic stream
   of uniform variates fixed by the seed; it is modelled by a full-period
   linear congruential generator over RngMod values, the variate being
   state / RngMod. *)

RngMod == 16

\* a variant that draws from one stream shared by all runs (the module-level
\* np.random), which every earlier run has advanced
RandomStateShared(seed) == (seed + proc[1].calls + proc[2].calls) % RngMod

\* np.random.RandomState(seed=seed)
RandomState(seed) == seed % RngMod

\* the stream's state after one more uniform variate is drawn
RngNext(s) == (5 * s + 3) % RngMod

----------------------------------------------------------------------------
(* _add_unobserved: the group aggregate *)

\* df.groupby(groups)['def.uid'].nunique(): the distinct individuals of the
\* key's demographic cell (groups = group_all without offense_category)
PopSize(df, key) ==
  Cardinality({df[i].uid : i \in {j \in DOMAIN df :
                 df[j].demo = key[1] /\ df[j].age_cat = key[2]}})

\* the rate rows a left merge attaches to one group: the matching rows of
\* crimes in order, or one row of missing values
MatchRates(crimes, key) ==
  LET hit == SelectSeq(crimes, LAMBDA c : c.key = key)
  IN  IF hit = <<>>
      THEN <<[key |-> key, arrest_rate_smooth |-> NaN, lambda |-> NaN, lambda_smooth |-> NaN]>>
      ELSE hit

\* offenses: per group the summed observed count, pop_size and the rate columns
Offenses(df, crimes) ==
  LET keys == GroupKeys(df)
  IN  Flatten([g \in 1..Len(keys) |->
        LET key == keys[g]
            rows == RowsOf(df, key)
            cnt == SeqSum([i \in 1..Len(rows) |-> rows[i].offense_count])
            rates == MatchRates(crimes, key)
        IN  [r \in 1..Len(rates) |->
              [key |-> key, offense_count |-> cnt, pop_size |-> PopSize(df, key),
               arrest_rate_smooth |-> rates[r].arrest_rate_smooth,
               lambda |-> rates[r].lambda,
               lambda_smooth |-> rates[r].lambda_smooth]]])

\* offenses after _count_unobserved
Counted(df, crimes, lam, lambda_col) ==
  LET off == Offenses(df, crimes)
  IN  [i \in 1..Len(off) |-> CountUnobserved(off[i], lam, lambda_col)]

\* crime_weight = unobserved_per_person + omega * offense_count, written over
\* the common denominator RateDen * pop_size (sample() normalises the weights,
\* and the sign of their sum is that of the scaled sum)
CrimeWeight(o, offense_count, omega) ==
  RateDen * o.unobserved_crimes + omega * offense_count * o.pop_size

\* pd.merge(df, offenses[...], how='left', on=group_all) and crime_weight
WithWeights(df, counted, omega) ==
  Flatten([i \in 1..Len(df) |->
    LET hit == SelectSeq(counted, LAMBDA o : o.key = KeyOf(df[i]))
    IN  [h \in 1..Len(hit) |->
          [uid |-> df[i].uid, demo |-> df[i].demo, dob |-> df[i].dob,
           age_cat |-> df[i].age_cat, cat |-> df[i].cat,
           offense_count |-> df[i].offense_count,
           unobserved_crimes |-> hit[h].unobserved_crimes,
           pop_size |-> hit[h].pop_size,
           crime_weight |-> CrimeWeight(hit[h], df[i].offense_count, omega)]]])

----------------------------------------------------------------------------
(* _sample_unobserved *)

\* a variant that rounds to nearest instead of truncating
NSamplesRounded(unobserved_crimes, n_samples_div) ==
  IF unobserved_crimes >= 0 THEN RoundHalfEven(unobserved_crimes, n_samples_div)
  ELSE -RoundHalfEven(-unobserved_crimes, n_samples_div)

\* n_samples = int(group['unobserved_crimes'].mean() / n_samples_div)
NSamples(unobserved_crimes, n_samples_div) == IntTrunc(unobserved_crimes, n_samples_div)

\* the row one uniform variate selects: the first whose cumulative weight,
\* as a share of the total, exceeds the variate
PickIndex(weights, s) ==
  LET total == SeqSum(weights)
      cum(i) == SeqSum(SubSeq(weights, 1, i))
  IN  CHOOSE i \in DOMAIN weights :
        /\ cum(i) * RngMod > s * total
        /\ \A j \in 1..(i - 1) : cum(j) * RngMod <= s * total

\* the stream's state after k more variates
\* (the generator has period RngMod, so k is reduced first)
RngAfter(s, k) ==
  LET f[i \in 0..(RngMod - 1)] == IF i = 0 THEN s ELSE RngNext(f[i - 1])
  IN  f[k % RngMod]

\* group['def.uid'].sample(n, replace=True, weights=..., random_state=rng):
\* the uids drawn, in order, and the stream's state afterwards
DrawN(group, n, rng) ==
  LET w == [i \in 1..Len(group) |-> group[i].crime_weight]
  IN  [uids |-> [k \in 1..n |-> group[PickIndex(w, RngAfter(rng, k))].uid],
       rng |-> RngAfter(rng, n)]

\* list(Counter(samples).items()): each drawn uid once, in order of first
\* draw, with the number of times it was drawn
CounterItems(uids) ==
  LET firsts == SelectSeq([i \in 1..Len(uids) |-> <<i, uids[i]>>],
                          LAMBDA p : \A j \in 1..(p[1] - 1) : uids[j] # p[2])
  IN  [i \in 1..Len(firsts) |->
        <<firsts[i][2], Cardinality({j \in DOMAIN uids : uids[j] = firsts[i][2]})>>]

\* _sample(group): err is "ValueError" when the group carries conflicting
\* unobserved_crimes; items is <<>> for the None result
SampleGroup(group, n_samples_div, rng) ==
  IF Cardinality({group[i].unobserved_crimes : i \in DOMAIN group}) > 1
  THEN [err |-> "ValueError", items |-> <<>>, uids |-> <<>>, rng |-> rng]
  ELSE LET n_samples == NSamples(group[1].unobserved_crimes, n_samples_div)
           wsum == SeqSum([i \in 1..Len(group) |-> group[i].crime_weight])
       IN  IF wsum <= 0 \/ n_samples < 1
           THEN [err |-> "", items |-> <<>>, uids |-> <<>>, rng |-> rng]
           ELSE LET d == DrawN(group, n_samples, rng)
                IN  [err |-> "", items |-> CounterItems(d.uids), uids |-> d.uids, rng |-> d.rng]

\* df.groupby(groups).apply(_sample) over the sorted groups, the stream
\* threaded through them; then explode: one row per (group, uid) pair.
\* draws keeps, per group, the uids as drawn.
RECURSIVE SampleGroups(_, _, _, _)
SampleGroups(keys, df, n_samples_div, rng) ==
  IF keys = <<>> THEN [err |-> "", samples |-> <<>>, draws |-> <<>>, rng |-> rng]
  ELSE LET g == SampleGroup(RowsOf(df, Head(keys)), n_samples_div, rng)
       IN  IF g.err # "" THEN [err |-> g.err, samples |-> <<>>, draws |-> <<>>, rng |-> g.rng]
           ELSE LET rest == SampleGroups(Tail(keys), df, n_samples_div, g.rng)
                    rows == [i \in 1..Len(g.items) |->
                              [key |-> Head(keys), uid |-> g.items[i][1],
                               offense_unobserved |-> g.items[i][2]]]
                IN  [err |-> rest.err,
                     samples |-> rows \o rest.samples,
                     draws |-> <<[key |-> Head(keys), uids |-> g.uids]>> \o rest.draws,
                     rng |-> rest.rng]

SampleUnobserved(df, n_samples_div, rng) ==
  SampleGroups(GroupKeys(df), df, n_samples_div, rng)

\* pd.merge(df, samples, how='left', on=group_all + ['def.uid']), fillna(0),
\* offense_total = offense_count + offense_unobserved
MergeSamples(df, samples) ==
  Flatten([i \in 1..Len(df) |->
    LET hit == SelectSeq(samples, LAMBDA x : x.key = KeyOf(df[i]) /\ x.uid = df[i].uid)
        out(u) == [uid |-> df[i].uid, demo |-> df[i].demo, dob |-> df[i].dob,
                   age_cat |-> df[i].age_cat, cat |-> df[i].cat,
                   offense_count |-> df[i].offense_count,
                   unobserved_crimes |-> df[i].unobserved_crimes,
                   pop_size |-> df[i].pop_size,
                   crime_weight |-> df[i].crime_weight,
                   offense_unobserved |-> u,
                   offense_total |-> df[i].offense_count + u]
    IN  IF hit = <<>> THEN <<out(0)>>
        ELSE [h \in 1..Len(hit) |-> out(hit[h].offense_unobserved)]])

\* _add_unobserved: err is "", "RuntimeError" (an undefined
\* unobserved_per_person) or "ValueError" (from _sample)
AddUnobserved(df, crimes, lam, omega, n_samples_div, lambda_col, rng) ==
  LET counted == Counted(df, crimes, lam, lambda_col)
  IN  IF \E i \in DOMAIN counted : PerPersonIsNaN(counted[i])
      THEN [err |-> "RuntimeError", df |-> <<>>, counted |-> counted,
            samples |-> <<>>, draws |-> <<>>, rng |-> rng]
      ELSE LET weighted == WithWeights(df, counted, omega)
               s == SampleUnobserved(weighted, n_samples_div, rng)
           IN  [err |-> s.err,
                df |-> IF s.err = "" THEN MergeSamples(weighted, s.samples) ELSE <<>>,
                counted |-> counted, samples |-> s.samples, draws |-> s.draws,
                rng |-> s.rng]

----------------------------------------------------------------------------
(* One _add_unobserved call on bounded inputs *)

\* the largest observed count of an individual, besides the scenario's 10
MaxCount == 2

ObservedCounts == (0..MaxCount) \cup {10}

ArrestRates == {NaN, 0, 250, 500, 1000}
LambdaRates == {250, 500, 1000}
LamValues == {NoLam, 250, 1000}
OmegaValues == {0, 1000}
SampleDivs == {1, 2, 4}
EstSeeds == {0, 6}

RateRow(key, arrest, lambda) ==
  [key |-> key, arrest_rate_smooth |-> arrest,
   lambda |-> IF arrest = NaN THEN NaN ELSE lambda,
   lambda_smooth |-> IF arrest = NaN THEN NaN ELSE RateDen]

EstKey == <<"f", "18-29", "assault">>
EstKeyOther == <<"m", "18-29", "assault">>

\* the rate tables tried: no row for the group, one row, or two rows for
\* the same grouping key
EstRateTables ==
  {<<>>}
  \cup {<<RateRow(EstKey, a, l)>> : a \in ArrestRates \ {NaN}, l \in LambdaRates}
  \cup {<<RateRow(EstKey, 500, 1000), RateRow(EstKey, a, 1000)>> : a \in {0, 250, 500}}

LongRow(uid, demo, dob, age_cat, cat, n) ==
  [uid |-> uid, demo |-> demo, dob |-> dob, age_cat |-> age_cat, cat |-> cat,
   offense_count |-> n]

\* the melted partition: individuals 1 and 2 share a group, individual 3,
\* when present, is a group of its own with one rate row
EstDf(in) ==
  <<LongRow(1, "f", 3960, "18-29", "assault", in.c1),
    LongRow(2, "f", 3961, "18-29", "assault", in.c2)>>
  \o (IF in.third THEN <<LongRow(3, "m", 3962, "18-29", "assault", 1)>> ELSE <<>>)

EstCrimes(in) == in.rates \o <<RateRow(EstKeyOther, 500, 1000)>>

EstInputs ==
  [c1 : ObservedCounts, c2 : ObservedCounts, third : BOOLEAN,
   rates : EstRateTables, lam : LamValues, omega : OmegaValues,
   n_samples_div : SampleDivs, seed : EstSeeds]

EstIdle == [pc |-> "off"]

EstInit == est \in {[pc |-> "ready", in |-> i] : i \in EstInputs}

\* _add_unobserved(df, group_all=NEULAW_TO_NCVS, crimes=ncvs, lambda_col='lambda')
EstAddUnobserved ==
  /\ est.pc = "ready"
  /\ est' = [pc |-> "done", in |-> est.in,
             out |-> AddUnobserved(EstDf(est.in), EstCrimes(est.in), est.in.lam,
                                   est.in.omega, est.in.n_samples_div, "lambda",
                                   RandomState(est.in.seed))]
  /\ UNCHANGED <<world, disk, proc>>

WorldIdle == [off |-> TRUE]
NoFiles == <<>>
NoProcs == <<>>

InitEstimator == EstInit /\ world = WorldIdle /\ disk = NoFiles /\ proc = NoProcs

NextEstimator == EstAddUnobserved

SpecEstimator == InitEstimator /\ [][NextEstimator]_vars

----------------------------------------------------------------------------
(* The window assembler: _window_sampler._window *)

WideRow(uid, demo, dob, age_cat, assault, dui) ==
  [uid |-> uid, demo |-> demo, dob |-> dob, age_cat |-> age_cat,
   counts |-> [c \in Range(CRIMES) |-> IF c = "assault" THEN assault ELSE dui]]

\* df.melt(id_vars=..., value_vars=CRIMES): per crime column, every row
Melt(wide) ==
  Flatten([c \in 1..Len(CRIMES) |->
    [i \in 1..Len(wide) |->
      LongRow(wide[i].uid, wide[i].demo, wide[i].dob, wide[i].age_cat,
              CRIMES[c], wide[i].counts[CRIMES[c]])]])

\* df['offense_category'].isin(['dui', 'drugs_use', 'drugs_sell'])
IsNsduh(row) == row.cat \in NsduhCats

\* the index of pd.pivot_table: one wide row per (gender and race, uid, dob,
\* age_cat), in order of first appearance (sort=False)
PivotIndex(r) == <<r.demo, r.uid, r.dob, r.age_cat>>

\* aggfunc mean of the offense_total of one cell (one value per cell when the
\* row count is unchanged)
CellMean(rows) ==
  SeqSum([i \in 1..Len(rows) |-> rows[i].offense_total]) \div Len(rows)

PivotTable(df) ==
  LET idx == [i \in 1..Len(df) |-> PivotIndex(df[i])]
      firsts == SelectSeq([i \in 1..Len(df) |-> i],
                          LAMBDA i : \A j \in 1..(i - 1) : idx[j] # idx[i])
  IN  [n \in 1..Len(firsts) |->
        LET r == df[firsts[n]]
        IN  [uid |-> r.uid, demo |-> r.demo, dob |-> r.dob, age_cat |-> r.age_cat,
             totals |-> [c \in {df[i].cat : i \in {j \in DOMAIN df : idx[j] = idx[firsts[n]]}} |->
                           CellMean(SelectSeq(df, LAMBDA x : PivotIndex(x) = PivotIndex(r)
                                                             /\ x.cat = c))]]]

\* what _window gives when it raises
WindowRaise(err, rng, melted, recombined) ==
  [err |-> err, out |-> <<>>, rng |-> rng, melted |-> melted,
   recombined |-> recombined, draws |-> <<>>]

\* a variant without the row count check
WindowRecombineUnchecked(df, a, b, rng) ==
  IF b.err # "" THEN WindowRaise(b.err, rng, Len(df), 0)
  ELSE [err |-> "", out |-> PivotTable(a.df \o b.df), rng |-> b.rng,
        melted |-> Len(df), recombined |-> Len(a.df \o b.df),
        draws |-> a.draws \o b.draws]

\* pd.concat of the two partitions, the row count check, the pivot
WindowRecombine(df, a, b, rng) ==
  IF b.err # "" THEN WindowRaise(b.err, rng, Len(df), 0)
  ELSE IF Len(a.df \o b.df) # Len(df)
  THEN WindowRaise("RuntimeError", rng, Len(df), Len(a.df \o b.df))
  ELSE [err |-> "", out |-> PivotTable(a.df \o b.df), rng |-> b.rng,
        melted |-> Len(df), recombined |-> Len(a.df \o b.df),
        draws |-> a.draws \o b.draws]

\* the second partition, sampled with the stream as the first left it
WindowNsduh(args, n_samples_div, rng, df, nsduh, a) ==
  IF a.err # "" THEN WindowRaise(a.err, rng, Len(df), 0)
  ELSE WindowRecombine(df, a,
         AddUnobserved(SelectSeq(df, IsNsduh), nsduh, args.lam, args.omega,
                       n_samples_div, "lambda_smooth", a.rng),
         rng)

\* the melted frame split by governing source, the first partition sampled
WindowSample(args, n_samples_div, rng, df, ncvs, nsduh) ==
  WindowNsduh(args, n_samples_div, rng, df, nsduh,
    AddUnobserved(SelectSeq(df, LAMBDA r : ~IsNsduh(r)), ncvs, args.lam, args.omega,
                  n_samples_div, "lambda", rng))

\* _window(window_end, n_samples_div), the providers' tables for the year
\* given: err is "" or the exception raised
Window(args, window_end, n_samples_div, rng, neulaw, ncvs, nsduh) ==
  IF ~(args.start_year <= window_end - args.window
       /\ window_end - args.window <= args.end_year)
  THEN WindowRaise("ValueError", rng, 0, 0)
  ELSE WindowSample(args, n_samples_div, rng, Melt(neulaw), ncvs, nsduh)

----------------------------------------------------------------------------
(* The rolling driver: rolling_crime_assignment and _add_age *)

\* days from 1 January 2000 to 1 January of year (2000 is a leap year)
DaysSince2000(year) ==
  LET n == year - 2000 IN 365 * n + ((n + 3) \div 4)

\* (pd.to_datetime(str(end_year)) - dob).days, dob being days before 2000
AgeDays(end_year, dob) == dob + DaysSince2000(end_year)

\* pd.cut(age, right=True, bins=[0, 17, 29, 500]) of age = days / 365.25
AgeCat(days) ==
  IF days <= 0 THEN "nan"
  ELSE IF 4 * days <= 17 * 1461 THEN "< 18"
  ELSE IF 4 * days <= 29 * 1461 THEN "18-29"
  ELSE IF 4 * days <= 500 * 1461 THEN "> 29"
  ELSE "nan"

\* _add_age: keep age > 10, label, drop '< 18'
AddAge(df, end_year) ==
  LET kept == SelectSeq(df, LAMBDA r : 4 * AgeDays(end_year, r.dob) > 10 * 1461)
      aged == [i \in 1..Len(kept) |->
                [index |-> kept[i].index, uid |-> kept[i].uid, demo |-> kept[i].demo,
                 dob |-> kept[i].dob, totals |-> kept[i].totals,
                 age_cat |-> AgeCat(AgeDays(end_year, kept[i].dob))]]
  IN  SelectSeq(aged, LAMBDA r : r.age_cat # "< 18")

\* a variant that groups on the window-local age category as well
RollingKeyWithAge(r) == <<r.demo, r.dob, r.uid, r.age_cat>>

\* the grouping columns of the rolling table after age_cat is dropped:
\* df.columns.difference(CRIMES), in sorted column order
RollingKey(r) == <<r.demo, r.dob, r.uid>>

\* the keys in groupby's sorted order
KeyLess(a, b) ==
  \/ IndexOf(DemoSeq, a[1]) < IndexOf(DemoSeq, b[1])
  \/ a[1] = b[1] /\ a[2] < b[2]
  \/ a[1] = b[1] /\ a[2] = b[2] /\ a[3] < b[3]
  \/ a[1] = b[1] /\ a[2] = b[2] /\ a[3] = b[3] /\ Len(a) > 3 /\
       IndexOf(AgeCatSeq, a[4]) < IndexOf(AgeCatSeq, b[4])

RECURSIVE SortKeys(_)
SortKeys(keys) ==
  IF keys = {} THEN <<>>
  ELSE LET m == CHOOSE k \in keys : \A o \in keys \ {k} : KeyLess(k, o)
       IN  <<m>> \o SortKeys(keys \ {m})

\* pd.concat(samples), drop age_cat, groupby(...).sum().reset_index()
RollingSum(samples) ==
  LET all == Flatten(samples)
      keys == SortKeys({RollingKey(all[i]) : i \in DOMAIN all})
  IN  [n \in 1..Len(keys) |->
        LET rows == SelectSeq(all, LAMBDA r : RollingKey(r) = keys[n])
        IN  [index |-> n - 1, uid |-> rows[1].uid, demo |-> rows[1].demo,
             dob |-> rows[1].dob,
             totals |-> [c \in Range(CRIMES) |->
                          SeqSum([i \in 1..Len(rows) |-> rows[i].totals[c]])]]]

\* range(start_year + window, end_year + 1)
WindowEnds(args) ==
  [i \in 1..(args.end_year + 1 - (args.start_year + args.window)) |->
     args.start_year + args.window + (i - 1)]

\* a variant that samples every window at full scale
SamplesDivFull(args, idx) == 1

\* n_samples_div = 1 if idx == 0 else years_in_window
SamplesDiv(args, idx) == IF idx = 0 THEN 1 ELSE args.window + 1

----------------------------------------------------------------------------
(* The cache gate: _file_path, to_csv, read_csv *)

\* f'{lam:.2f}', f'{omega:.2f}': the value in hundredths
Format2f(x) == RoundHalfEven(x * 100, RateDen)

\* _rate2string: per key, its first character and int(v * 1000)
Rate2String(dct) == [i \in 1..Len(dct) |-> <<Head(dct[i][1]), dct[i][2]>>]

\* _file_path: the directory and the file name, as their parts
FilePath(args) ==
  <<<<args.start_year, args.end_year, args.window>>,
    <<IF args.lam = NoLam THEN <<"nolam">> ELSE <<"lam", Format2f(args.lam)>>,
      <<"_om", Format2f(args.omega)>>,
      args.smoothing,
      IF args.rate_mult_ncvs = NoMult THEN <<>>
      ELSE <<"_mcvs", Rate2String(args.rate_mult_ncvs)>>,
      IF args.rate_mult_nsduh = NoMult THEN <<>>
      ELSE <<"_mduh", Rate2String(args.rate_mult_nsduh)>>,
      args.seed>>>>

\* a variant that never finds the file
IsFileNever(files, path) == FALSE

\* file_path.is_file()
IsFile(files, path) == path \in DOMAIN files

\* df.to_csv(file_path, index=False): the rows without their index
ToCsv(df) ==
  [i \in 1..Len(df) |->
    [uid |-> df[i].uid, demo |-> df[i].demo, dob |-> df[i].dob,
     totals |-> df[i].totals, age_cat |-> df[i].age_cat]]

\* pd.read_csv(file_path): the rows under a fresh index 0..n-1
ReadCsv(rows) ==
  [i \in 1..Len(rows) |->
    [index |-> i - 1, uid |-> rows[i].uid, demo |-> rows[i].demo, dob |-> rows[i].dob,
     totals |-> rows[i].totals, age_cat |-> rows[i].age_cat]]

\* the directory with the file written
WriteFile(files, path, content) ==
  [q \in DOMAIN files \cup {path} |-> IF q = path THEN content ELSE files[q]]

----------------------------------------------------------------------------
(* The providers.  init_neulaw, init_ncvs and init_nsduh are outside the
   module; world fixes the tables they return for each year. *)

FirstYear == 2000

\* dates of birth, in days before 1 January 2000: 25 years, 28 years and
\* 11 months, 22 years, 14 years
Dob1 == 9131
Dob2 == 10560
Dob3Adult == 8036
Dob3Minor == 5113

Worlds ==
  [c1 : {1, 2}, c2 : {0, 2}, aging : BOOLEAN, minor : BOOLEAN,
   rates : {"ok", "missing", "conflict", "duplicate"}]

\* neulaw_gen(year): individuals 1 and 2 every year, individual 2 in the
\* older age category after the first year when it ages, individual 3 from
\* the second year on
NeulawGen(w, year) ==
  <<WideRow(1, "f", Dob1, "18-29", w.c1, 1),
    WideRow(2, "f", Dob2, IF w.aging /\ year > FirstYear THEN "> 29" ELSE "18-29", w.c2, 0)>>
  \o (IF year > FirstYear
      THEN <<WideRow(3, "m", IF w.minor THEN Dob3Minor ELSE Dob3Adult,
                     IF w.minor THEN "< 18" ELSE "18-29", 1, 1)>>
      ELSE <<>>)

RatesFor(cat) ==
  SelectSeq([i \in 1..Len(AllKeys) |-> RateRow(AllKeys[i], 500, 1000)],
            LAMBDA r : r.key[3] = cat)

\* ncvs_gen(year): one row per grouping key; by the world's rates, the row
\* of EstKey is missing, or from the second year on it is followed by a row
\* with another arrest rate, or by a copy of itself
NcvsGen(w, year) ==
  LET base == RatesFor("assault")
  IN  IF w.rates = "missing" THEN SelectSeq(base, LAMBDA r : r.key # EstKey)
      ELSE IF w.rates = "conflict" /\ year > FirstYear
      THEN base \o <<RateRow(EstKey, 250, 1000)>>
      ELSE IF w.rates = "duplicate" /\ year > FirstYear
      THEN base \o <<RateRow(EstKey, 500, 1000)>>
      ELSE base

\* nsduh_gen(year)
NsduhGen(w, year) == RatesFor("dui")

----------------------------------------------------------------------------
(* get_synth and rolling_crime_assignment, step by step *)

Procs == {1, 2}

\* the calls of get_synth the model follows, over all processes
MaxCalls == 2

Args(end_year, seed, lam) ==
  [start_year |-> FirstYear, end_year |-> end_year, window |-> 1, seed |-> seed,
   lam |-> lam, omega |-> 1000, smoothing |-> "lr_pr",
   rate_mult_ncvs |-> NoMult, rate_mult_nsduh |-> NoMult]

\* the parameter tuples called with: lam 1.25 and 1.254, and no lam with
\* another seed
GetSynthArgs == {Args(2002, 0, 1250), Args(2002, 0, 1254), Args(2002, 3, NoLam)}

NoArgs == Args(0, 0, NoLam)

\* a process outside any call
Idle ==
  [pc |-> "idle", status |-> "new", args |-> NoArgs, calls |-> 0,
   hit |-> FALSE, computed |-> FALSE,
   rng |-> 0, idx |-> 0, samples |-> <<>>, draws |-> <<>>,
   df |-> <<>>, ret |-> <<>>, from |-> NoArgs, err |-> "", written |-> 0]

TotalCalls == proc[1].calls + proc[2].calls

\* no process is inside a call (execution is single-threaded)
AllIdle == \A q \in Procs : proc[q].pc = "idle"

\* rolling_crime_assignment up to its loop: the seeded stream, no samples
RollingEnter(p, args) ==
  [Idle EXCEPT !.pc = "rolling", !.args = args, !.calls = proc[p].calls + 1,
               !.computed = TRUE, !.rng = RandomState(args.seed)]

\* get_synth, the file is there: read it and return
GetSynthLoad(p, args) ==
  /\ AllIdle
  /\ TotalCalls < MaxCalls
  /\ IsFile(disk, FilePath(args))
  /\ proc' = [proc EXCEPT ![p] =
       [Idle EXCEPT !.status = "returned", !.args = args, !.calls = proc[p].calls + 1,
                    !.hit = TRUE,
                    !.ret = ReadCsv(disk[FilePath(args)].rows),
                    !.from = disk[FilePath(args)].by]]
  /\ UNCHANGED <<est, world, disk>>

\* get_synth, no file: enter rolling_crime_assignment
GetSynthGenerate(p, args) ==
  /\ AllIdle
  /\ TotalCalls < MaxCalls
  /\ ~IsFile(disk, FilePath(args))
  /\ proc' = [proc EXCEPT ![p] = RollingEnter(p, args)]
  /\ UNCHANGED <<est, world, disk>>

\* a variant that, on an exception, returns what the earlier windows gave
AfterWindowPartial(pr, w) ==
  IF w.err # ""
  THEN [pr EXCEPT !.pc = "idle", !.status = "raised", !.err = w.err,
                  !.ret = Flatten(pr.samples)]
  ELSE [pr EXCEPT !.idx = @ + 1, !.rng = w.rng,
                  !.samples = Append(@, w.out),
                  !.draws = Append(@, w.draws)]

\* the loop's state after one window: the sample appended, or the call
\* ended by the exception
AfterWindow(pr, w) ==
  IF w.err # ""
  THEN [pr EXCEPT !.pc = "idle", !.status = "raised", !.err = w.err]
  ELSE [pr EXCEPT !.idx = @ + 1, !.rng = w.rng,
                  !.samples = Append(@, w.out),
                  !.draws = Append(@, w.draws)]

\* sample_window(window_end, n_samples_div=1 if idx == 0 else years_in_window)
\* for the loop's idx
WindowAt(args, idx, rng) ==
  Window(args, WindowEnds(args)[idx + 1], SamplesDiv(args, idx), rng,
         NeulawGen(world, WindowEnds(args)[idx + 1] - args.window),
         NcvsGen(world, WindowEnds(args)[idx + 1] - args.window),
         NsduhGen(world, WindowEnds(args)[idx + 1] - args.window))

\* one iteration of the loop over the window end-years; an exception ends
\* the call
SampleWindow(p) ==
  /\ proc[p].pc = "rolling"
  /\ proc[p].idx < Len(WindowEnds(proc[p].args))
  /\ proc' = [proc EXCEPT ![p] =
       AfterWindow(proc[p], WindowAt(proc[p].args, proc[p].idx, proc[p].rng))]
  /\ UNCHANGED <<est, world, disk>>

\* after the loop: concatenate, sum per individual, re-derive the age category
RollingFinish(p) ==
  /\ proc[p].pc = "rolling"
  /\ proc[p].idx = Len(WindowEnds(proc[p].args))
  /\ proc' = [proc EXCEPT ![p] =
       [@ EXCEPT !.pc = "rolled",
                 !.df = AddAge(RollingSum(proc[p].samples), proc[p].args.end_year)]]
  /\ UNCHANGED <<est, world, disk>>

\* get_synth after rolling_crime_assignment: write the file, return the table
ToCsvReturn(p) ==
  /\ proc[p].pc = "rolled"
  /\ disk' = WriteFile(disk, FilePath(proc[p].args),
                       [rows |-> ToCsv(proc[p].df), by |-> proc[p].args])
  /\ proc' = [proc EXCEPT ![p] =
       [@ EXCEPT !.pc = "idle", !.status = "returned", !.ret = proc[p].df,
                 !.from = proc[p].args]]
  /\ UNCHANGED <<est, world>>

Init ==
  /\ est = EstIdle
  /\ world \in Worlds
  /\ disk = NoFiles
  /\ proc = [p \in Procs |-> Idle]

Next ==
  \E p \in Procs :
    \/ \E args \in GetSynthArgs : GetSynthLoad(p, args)
    \/ \E args \in GetSynthArgs : GetSynthGenerate(p, args)
    \/ SampleWindow(p)
    \/ RollingFinish(p)
    \/ ToCsvReturn(p)

Spec == Init /\ [][Next]_vars

----------------------------------------------------------------------------
(* Independent runs of rolling_crime_assignment: each process calls it once,
   on the same providers' data, and the runs interleave freely *)

\* rolling_crime_assignment(**args) is entered
RollingStart(p, args) ==
  /\ proc[p].status = "new"
  /\ proc[p].pc = "idle"
  /\ proc' = [proc EXCEPT ![p] = RollingEnter(p, args)]
  /\ UNCHANGED <<est, world, disk>>

\* the parameter tuples of the runs: those of get_synth and one of three
\* windows
RunArgs == GetSynthArgs \cup {Args(2003, 0, NoLam)}

NextRuns ==
  \E p \in Procs :
    \/ \E args \in RunArgs : RollingStart(p, args)
    \/ SampleWindow(p)
    \/ RollingFinish(p)

SpecRuns == Init /\ [][NextRuns]_vars

----------------------------------------------------------------------------
(* Concurrent calls of get_synth: the processes share only the cache
   directory, nothing orders their steps, and to_csv is the file's creation
   (or truncation), its rows written one after the other at the writer's own
   offset, and the close *)

\* the providers' data of the concurrent calls: rate tables without faults
ConcWorlds == {w \in Worlds : w.rates = "ok" /\ ~w.minor}

\* parameter tuples with distinct paths
ConcArgs == {Args(2002, 0, 1250), Args(2002, 3, NoLam)}

\* what a reader finds where a writer left a gap below its offset
HoleRow ==
  [uid |-> 0, demo |-> "", dob |-> 0, totals |-> [c \in Range(CRIMES) |-> 0],
   age_cat |-> ""]

\* the file's rows after a row is written at offset k
PutRow(rows, k, row) ==
  [i \in 1..(IF Len(rows) > k THEN Len(rows) ELSE k) |->
     IF i = k THEN row ELSE IF i <= Len(rows) THEN rows[i] ELSE HoleRow]

\* get_synth, the file is there: read what it holds and return
ConcLoad(p, args) ==
  /\ proc[p].pc = "idle"
  /\ TotalCalls < MaxCalls
  /\ IsFile(disk, FilePath(args))
  /\ proc' = [proc EXCEPT ![p] =
       [Idle EXCEPT !.status = "returned", !.args = args, !.calls = proc[p].calls + 1,
                    !.hit = TRUE,
                    !.ret = ReadCsv(disk[FilePath(args)].rows),
                    !.from = disk[FilePath(args)].by]]
  /\ UNCHANGED <<est, world, disk>>

\* get_synth, no file: enter rolling_crime_assignment
ConcGenerate(p, args) ==
  /\ proc[p].pc = "idle"
  /\ TotalCalls < MaxCalls
  /\ ~IsFile(disk, FilePath(args))
  /\ proc' = [proc EXCEPT ![p] = RollingEnter(p, args)]
  /\ UNCHANGED <<est, world, disk>>

\* df.to_csv(file_path): the file is opened for writing, empty
ToCsvOpen(p) ==
  /\ proc[p].pc = "rolled"
  /\ disk' = WriteFile(disk, FilePath(proc[p].args),
                       [rows |-> <<>>, by |-> proc[p].args])
  /\ proc' = [proc EXCEPT ![p] = [@ EXCEPT !.pc = "writing", !.written = 0]]
  /\ UNCHANGED <<est, world>>

\* df.to_csv(file_path): the next row reaches the file
ToCsvWrite(p) ==
  /\ proc[p].pc = "writing"
  /\ proc[p].written < Len(proc[p].df)
  /\ disk' = WriteFile(disk, FilePath(proc[p].args),
               [rows |-> PutRow(disk[FilePath(proc[p].args)].rows, proc[p].written + 1,
                                ToCsv(proc[p].df)[proc[p].written + 1]),
                by |-> proc[p].args])
  /\ proc' = [proc EXCEPT ![p] = [@ EXCEPT !.written = @ + 1]]
  /\ UNCHANGED <<est, world>>

\* df.to_csv(file_path) is through; get_synth returns df
ToCsvClose(p) ==
  /\ proc[p].pc = "writing"
  /\ proc[p].written = Len(proc[p].df)
  /\ proc' = [proc EXCEPT ![p] =
       [@ EXCEPT !.pc = "idle", !.status = "returned", !.ret = proc[p].df,
                 !.from = proc[p].args]]
  /\ UNCHANGED <<est, world, disk>>

InitConcurrent ==
  /\ est = EstIdle
  /\ world \in ConcWorlds
  /\ disk = NoFiles
  /\ proc = [p \in Procs |-> Idle]

NextConcurrent ==
  \E p \in Procs :
    \/ \E args \in ConcArgs : ConcLoad(p, args)
    \/ \E args \in ConcArgs : ConcGenerate(p, args)
    \/ SampleWindow(p)
    \/ RollingFinish(p)
    \/ ToCsvOpen(p)
    \/ ToCsvWrite(p)
    \/ ToCsvClose(p)

SpecConcurrent == InitConcurrent /\ [][NextConcurrent]_vars

----------------------------------------------------------------------------
(* Calls of the function _window_sampler returns, in any order and for any
   end-year, on the stream the sampler was made with *)

\* the calls of _window followed on one sampler
MaxWindowCalls == 2

\* the providers' data of the sampler
WindowWorlds == {w \in Worlds : w.c1 = 2 /\ ~w.minor}

\* the end-years asked for: from before start_year to after end_year
WindowEndYears(args) == (args.start_year - 1)..(args.end_year + 2)

WindowDivs(args) == {1, args.window + 1}

\* _window_sampler(start_year, end_year, window, rng=RandomState(seed), ...)
SamplerInit ==
  est \in {[pc |-> "sampler", args |-> a, rng |-> RandomState(a.seed), log |-> <<>>] :
             a \in GetSynthArgs}

\* the sampler after a call: the stream as the call left it, the call and
\* its result remembered; after an exception no further call is followed
AfterCall(e, window_end, n_samples_div, w) ==
  [e EXCEPT !.pc = IF w.err # "" THEN "raised" ELSE "sampler",
            !.rng = w.rng,
            !.log = Append(@, [window_end |-> window_end,
                               n_samples_div |-> n_samples_div, res |-> w])]

\* sample_window(window_end, n_samples_div)
WindowCall(window_end, n_samples_div) ==
  /\ est.pc = "sampler"
  /\ Len(est.log) < MaxWindowCalls
  /\ est' = AfterCall(est, window_end, n_samples_div,
              Window(est.args, window_end, n_samples_div, est.rng,
                     NeulawGen(world, window_end - est.args.window),
                     NcvsGen(world, window_end - est.args.window),
                     NsduhGen(world, window_end - est.args.window)))
  /\ UNCHANGED <<world, disk, proc>>

InitWindow == SamplerInit /\ world \in WindowWorlds /\ disk = NoFiles /\ proc = NoProcs

NextWindow ==
  \E window_end \in WindowEndYears(est.args) :
    \E n_samples_div \in WindowDivs(est.args) : WindowCall(window_end, n_samples_div)

SpecWindow == InitWindow /\ [][NextWindow]_vars

----------------------------------------------------------------------------
(* One _add_age call on a one-row table *)

\* the latest date of birth tried, in days before 1 January 2000
MaxDobDays == 10700

\* dates of birth from about 7 to about 31 years before the end years
DobDays == 2700..MaxDobDays

AgeEndYears == {2001, 2002}

AgeRow(dob) ==
  [index |-> 0, uid |-> 1, demo |-> "f", dob |-> dob,
   totals |-> [c \in Range(CRIMES) |-> 0]]

AgeInit == est \in [pc : {"age"}, end_year : AgeEndYears, dob : DobDays]

\* _add_age(df, end_year)
AgeAddAge ==
  /\ est.pc = "age"
  /\ est' = [pc |-> "aged", end_year |-> est.end_year, dob |-> est.dob,
             out |-> AddAge(<<AgeRow(est.dob)>>, est.end_year)]
  /\ UNCHANGED <<world, disk, proc>>

InitAge == AgeInit /\ world = WorldIdle /\ disk = NoFiles /\ proc = NoProcs

NextAge == AgeAddAge

SpecAge == InitAge /\ [][NextAge]_vars

----------------------------------------------------------------------------
(* Properties of one _add_unobserved call (SpecEstimator) *)

EstDone == est.pc = "done"

Abs(x) == IF x < 0 THEN -x ELSE x

\* the observed counts of a group's individuals, from the call's input
EstObserved(key) ==
  LET rows == RowsOf(EstDf(est.in), key)
  IN  SeqSum([i \in 1..Len(rows) |-> rows[i].offense_count])

EstKeys == GroupKeys(EstDf(est.in))

\* the rate the estimator multiplies by
EstEffectiveLambda(o) == IF est.in.lam = NoLam THEN o.lambda ELSE est.in.lam

\* p / q is x rounded to the nearest integer n (either way on a tie)
IsNearest(n, p, q) == 2 * Abs(n * q - p) <= q

\* the uids drawn for a group
EstDraws(key) ==
  LET d == SelectSeq(est.out.draws, LAMBDA x : x.key = key)
  IN  IF d = <<>> THEN <<>> ELSE d[1].uids

EstSamples(key) == SelectSeq(est.out.samples, LAMBDA x : x.key = key)

EstAssigned(key) ==
  LET sm == EstSamples(key)
  IN  SeqSum([i \in 1..Len(sm) |-> sm[i].offense_unobserved])

\* the rows of offenses (one per matched rate row) of a group
EstCounted(key) == SelectSeq(est.out.counted, LAMBDA o : o.key = key)

\* C4 as stated: where the arrest rate is > 0, total_crimes is
\* observed / arrest_rate (lam absent) or observed / lam (lam given), rounded
\* to the nearest integer, and unobserved_crimes = total_crimes - observed.
C4_AsStated ==
  EstDone =>
    \A i \in DOMAIN est.out.counted :
      LET o == est.out.counted[i]
      IN  RatePositive(o.arrest_rate_smooth) =>
            /\ IF est.in.lam = NoLam
               THEN IsNearest(o.total_crimes, o.offense_count * RateDen, o.arrest_rate_smooth)
               ELSE IsNearest(o.total_crimes, o.offense_count * RateDen, est.in.lam)
            /\ o.unobserved_crimes = o.total_crimes - o.offense_count

\* C4 amended: where the arrest rate is > 0, total_crimes is
\* observed / arrest_rate * lambda, lambda being the rate row's lambda column
\* when lam is absent and lam when it is given, rounded to the nearest
\* integer; unobserved_crimes = total_crimes - observed.  The observed count
\* is the sum of the group's individual counts.
C4_TotalCrimes ==
  EstDone =>
    \A i \in DOMAIN est.out.counted :
      LET o == est.out.counted[i]
      IN  /\ o.offense_count = EstObserved(o.key)
          /\ RatePositive(o.arrest_rate_smooth) =>
               /\ IsNearest(o.total_crimes, o.offense_count * EstEffectiveLambda(o),
                            o.arrest_rate_smooth)
               /\ o.unobserved_crimes = o.total_crimes - o.offense_count

\* the spec's scenario with lambda = 1: observed 10, arrest rate 0.5, no lam
\* gives total_crimes 20 and unobserved_crimes 10
C4_Witness ==
  /\ EstDone
  /\ est.in.lam = NoLam
  /\ \E i \in DOMAIN est.out.counted :
       LET o == est.out.counted[i]
       IN  /\ o.offense_count = 10 /\ o.arrest_rate_smooth = 500 /\ o.lambda = 1000
           /\ o.total_crimes = 20 /\ o.unobserved_crimes = 10

\* a group all of whose matched rate rows are missing or <= 0
EstFallbackGroup(key) ==
  \A i \in DOMAIN est.out.counted :
    est.out.counted[i].key = key => ~RatePositive(est.out.counted[i].arrest_rate_smooth)

\* C5: a group whose arrest rate is missing or <= 0 has total_crimes equal to
\* its observed count and unobserved_crimes 0; none of its individuals is
\* assigned a synthetic offense; and the call does not raise because of it
\* (a raise needs a group with a positive arrest rate).
C5_Fallback ==
  EstDone =>
    /\ \A i \in DOMAIN est.out.counted :
         LET o == est.out.counted[i]
         IN  ~RatePositive(o.arrest_rate_smooth) =>
               /\ o.total_crimes = EstObserved(o.key)
               /\ o.unobserved_crimes = 0
    /\ \A k \in Range(EstKeys) :
         EstFallbackGroup(k) =>
           /\ EstSamples(k) = <<>>
           /\ EstDraws(k) = <<>>
           /\ \A j \in DOMAIN est.out.df :
                KeyOf(est.out.df[j]) = k => est.out.df[j].offense_total = est.out.df[j].offense_count
    /\ est.out.err # "" => \E k \in Range(EstKeys) : ~EstFallbackGroup(k)

\* a group with observed offenses and a zero or missing arrest rate went
\* through the call beside a group that was sampled
C5_Witness ==
  /\ EstDone
  /\ est.out.err = ""
  /\ EstFallbackGroup(EstKey)
  /\ EstObserved(EstKey) > 0
  /\ est.out.samples # <<>>

\* the total sampling weight of a group
EstWeightSum(key) ==
  LET o == EstCounted(key)[1]
      rows == RowsOf(EstDf(est.in), key)
  IN  SeqSum([i \in 1..Len(rows) |-> CrimeWeight(o, rows[i].offense_count, est.in.omega)])

EstOutRows(key, uid) ==
  SelectSeq(est.out.df, LAMBDA r : KeyOf(r) = key /\ r.uid = uid)

\* what the sampler assigned to an individual: its pair's count, or 0
EstAssignedTo(key, uid) ==
  LET sm == SelectSeq(est.out.samples, LAMBDA x : x.key = key /\ x.uid = uid)
  IN  IF sm = <<>> THEN 0 ELSE sm[1].offense_unobserved

\* the accounting of one call, per group: the individuals' offense_total
\* sum to the observed counts plus the assigned counts; an individual
\* appears at most once among the (individual, count) pairs, with the number
\* of times it was drawn; an undrawn individual gets 0
EstAccounting(k) ==
  LET rows == RowsOf(EstDf(est.in), k)
      sm == EstSamples(k)
      drawn == EstDraws(k)
  IN  /\ \A i \in DOMAIN rows :
           /\ EstOutRows(k, rows[i].uid) # <<>>
           /\ \A j \in DOMAIN EstOutRows(k, rows[i].uid) :
                EstOutRows(k, rows[i].uid)[j].offense_total =
                  rows[i].offense_count + EstAssignedTo(k, rows[i].uid)
      /\ SeqSum([i \in 1..Len(rows) |-> EstOutRows(k, rows[i].uid)[1].offense_total])
           = EstObserved(k) + EstAssigned(k)
      /\ \A i, j \in DOMAIN sm : sm[i].uid = sm[j].uid => i = j
      /\ \A i \in DOMAIN sm :
           sm[i].offense_unobserved =
             Cardinality({d \in DOMAIN drawn : drawn[d] = sm[i].uid})
      /\ \A i \in DOMAIN rows :
           (\A d \in DOMAIN drawn : drawn[d] # rows[i].uid) =>
             EstAssignedTo(k, rows[i].uid) = 0
      /\ EstAssigned(k) = Len(drawn)

\* C7 as stated: after _add_unobserved, per group, the accounting holds and
\* the assigned counts sum to at most the group's unobserved_crimes.
C7_AsStated ==
  (EstDone /\ est.out.err = "") =>
    \A k \in Range(EstKeys) :
      /\ EstAccounting(k)
      /\ EstAssigned(k) <= EstCounted(k)[1].unobserved_crimes

\* C7 without the bound: the accounting alone, and the bound wherever
\* unobserved_crimes is not negative
C7_Accounting ==
  (EstDone /\ est.out.err = "") =>
    \A k \in Range(EstKeys) :
      /\ EstAccounting(k)
      /\ EstCounted(k)[1].unobserved_crimes >= 0 =>
           EstAssigned(k) <= EstCounted(k)[1].unobserved_crimes

\* C8 as stated: no offense_total is negative, and every group's
\* unobserved_per_person (unobserved_crimes / pop_size) is >= 0 unless the
\* call raises.
C8_AsStated ==
  EstDone =>
    /\ \A j \in DOMAIN est.out.df : est.out.df[j].offense_total >= 0
    /\ est.out.err = "" =>
         \A i \in DOMAIN est.out.counted : est.out.counted[i].unobserved_crimes >= 0

----------------------------------------------------------------------------
(* Properties of independent runs (SpecRuns) *)

Min(a, b) == IF a <= b THEN a ELSE b

ScheduledWindow(a, i, rng) ==
  Window(a, a.start_year + a.window + i, IF i = 0 THEN 1 ELSE a.window + 1, rng,
         NeulawGen(world, a.start_year + i), NcvsGen(world, a.start_year + i),
         NsduhGen(world, a.start_year + i))

\* a step of a run that is a window computation is the scheduled one
ScheduleStep(p) ==
  (proc[p].pc = "rolling" /\ proc'[p] # proc[p] /\ proc'[p].pc # "rolled") =>
    /\ proc[p].args.start_year + proc[p].args.window + proc[p].idx <= proc[p].args.end_year
    /\ IF proc'[p].status = "raised"
       THEN ScheduledWindow(proc[p].args, proc[p].idx, proc[p].rng).err = proc'[p].err
       ELSE /\ proc'[p].idx = proc[p].idx + 1
            /\ proc'[p].samples =
                 Append(proc[p].samples,
                        ScheduledWindow(proc[p].args, proc[p].idx, proc[p].rng).out)
            /\ proc'[p].draws =
                 Append(proc[p].draws,
                        ScheduledWindow(proc[p].args, proc[p].idx, proc[p].rng).draws)

\* C13: a run computes one window per end-year from start_year + window to
\* end_year, in increasing order and no other, the first with
\* n_samples_div = 1 and each later one with n_samples_div = window + 1; it
\* ends its loop when and only when all of them are computed.
C13_Schedule ==
  /\ [](\A p \in Procs :
          proc[p].pc = "rolled" =>
            Len(proc[p].samples) =
              proc[p].args.end_year - (proc[p].args.start_year + proc[p].args.window) + 1)
  /\ [][\A p \in Procs : ScheduleStep(p)]_vars

\* a run of three windows is through, the second and the third window
\* having drawn at the reduced scale
C13_Witness ==
  \E p \in Procs :
    /\ proc[p].pc = "rolled"
    /\ Len(proc[p].samples) = 3
    /\ \A i \in 2..3 : \E j \in DOMAIN proc[p].draws[i] : proc[p].draws[i][j].uids # <<>>

----------------------------------------------------------------------------
(* Properties of get_synth (Spec) *)

\* what a returned call left or found on the disk
GateReturned(p) ==
  /\ proc[p].computed =>
       /\ FilePath(proc[p].args) \in DOMAIN disk
       /\ disk[FilePath(proc[p].args)].rows = ToCsv(proc[p].ret)
  /\ proc[p].hit =>
       /\ ~proc[p].computed
       /\ proc[p].ret = ReadCsv(disk[FilePath(proc[p].args)].rows)

\* a call is entered: the driver runs exactly when no file is at the path
GateEntered(p) ==
  proc'[p].calls = proc[p].calls + 1 =>
    /\ proc'[p].computed <=> FilePath(proc'[p].args) \notin DOMAIN disk
    /\ proc'[p].hit <=> FilePath(proc'[p].args) \in DOMAIN disk

\* a stored file stays, unchanged
FilesKept == \A path \in DOMAIN disk : path \in DOMAIN disk' /\ disk'[path] = disk[path]

\* C2: get_synth runs the rolling driver exactly when no file is at the path
\* derived from the parameters; a call that computed has its table in the
\* file when it returns; a stored file is never rewritten; and a call that
\* finds the file, in any process, returns the stored table without running
\* the driver.
C2_CacheGate ==
  /\ [](\A p \in Procs : proc[p].status = "returned" => GateReturned(p))
  /\ [][FilesKept /\ \A p \in Procs : GateEntered(p)]_vars

\* one process computed and stored a table; another process, called later
\* with the same parameters, returned it from the file
C2_Witness ==
  \E p, q \in Procs :
    /\ p # q
    /\ proc[q].status = "returned" /\ proc[q].computed
    /\ proc[p].status = "returned" /\ proc[p].hit
    /\ proc[p].args = proc[q].args
    /\ proc[p].ret # <<>>
    /\ ToCsv(proc[p].ret) = ToCsv(proc[q].ret)

\* C3: a call in which a window raised has returned no table, and no file is
\* at the path of its parameters, also when earlier windows of the run had
\* completed.
C3_FailFast ==
  \A p \in Procs :
    proc[p].status = "raised" =>
      /\ proc[p].err \in {"ValueError", "RuntimeError"}
      /\ proc[p].ret = <<>>
      /\ proc[p].df = <<>>
      /\ FilePath(proc[p].args) \notin DOMAIN disk

\* the second window raised after the first one had given its sample
C3_Witness ==
  \E p \in Procs :
    /\ proc[p].status = "raised"
    /\ proc[p].idx = 1
    /\ Len(proc[p].samples) = 1 /\ proc[p].samples[1] # <<>>
    /\ \E j \in DOMAIN proc[p].draws[1] : proc[p].draws[1][j].uids # <<>>

\* C9 as stated: parameter tuples that differ are never given the same path,
\* so a returned table was computed for the parameters of the call.
C9_AsStated ==
  \A p \in Procs :
    proc[p].status = "returned" =>
      /\ proc[p].from = proc[p].args
      /\ \A a \in GetSynthArgs : a # proc[p].args => FilePath(a) # FilePath(proc[p].args)

\* the rows of an individual in the concatenated window outputs
UidRows(samples, uid) == SelectSeq(Flatten(samples), LAMBDA r : r.uid = uid)

\* C10: in the rolling table every individual has one row, whose value per
\* offense category is the sum of the individual's offense_total over the
\* window outputs holding it, each window holding it in at most one row,
\* whatever age category the windows gave it.
C10_RollingSum ==
  \A p \in Procs :
    proc[p].pc = "rolled" =>
      /\ \A i, j \in DOMAIN proc[p].df :
           proc[p].df[i].uid = proc[p].df[j].uid => i = j
      /\ \A w \in DOMAIN proc[p].samples :
           \A i, j \in DOMAIN proc[p].samples[w] :
             proc[p].samples[w][i].uid = proc[p].samples[w][j].uid => i = j
      /\ \A i \in DOMAIN proc[p].df :
           \A c \in Range(CRIMES) :
             proc[p].df[i].totals[c] =
               SeqSum([k \in 1..Len(UidRows(proc[p].samples, proc[p].df[i].uid)) |->
                         UidRows(proc[p].samples, proc[p].df[i].uid)[k].totals[c]])

\* an individual moved to the older age category between two windows, both
\* of which assigned it synthetic offenses, and has one row in the table
C10_Witness ==
  \E p \in Procs :
    /\ proc[p].pc = "rolled"
    /\ world.aging
    /\ \E i \in DOMAIN proc[p].df : proc[p].df[i].uid = 2
    /\ \E i \in DOMAIN proc[p].samples[1] :
         /\ proc[p].samples[1][i].uid = 2
         /\ proc[p].samples[1][i].age_cat = "18-29"
         /\ proc[p].samples[1][i].totals["assault"] > world.c2
    /\ \E i \in DOMAIN proc[p].samples[2] :
         /\ proc[p].samples[2][i].uid = 2
         /\ proc[p].samples[2][i].age_cat = "> 29"
         /\ proc[p].samples[2][i].totals["assault"] > world.c2

----------------------------------------------------------------------------
(* Properties of _add_age (SpecAge) *)

\* days from 1 January of year to 1 January 2000, for 1901 <= year <= 2000
DaysBefore2000(year) ==
  LET m == 2000 - year IN 365 * m + (m \div 4)

\* the age in days, on 1 January of end_year, of somebody born n years
\* before to the day
YearsOldDays(end_year, n) == DaysBefore2000(end_year - n) + DaysSince2000(end_year)

\* C11 as stated: with the age taken from the date of birth against 1
\* January of end_year, the output of _add_age holds nobody younger than 18
\* years; whoever it holds aged 18 and not yet 29 is labelled '18-29', and
\* whoever is older than 29 is labelled '> 29'.
C11_AsStated ==
  est.pc = "aged" =>
    \A i \in DOMAIN est.out :
      LET days == AgeDays(est.end_year, est.out[i].dob)
      IN  /\ days >= YearsOldDays(est.end_year, 18)
          /\ days < YearsOldDays(est.end_year, 29) => est.out[i].age_cat = "18-29"
          /\ days > YearsOldDays(est.end_year, 29) => est.out[i].age_cat = "> 29"

\* what _add_age does keep and how it labels: nobody of 17 years (of 365.25
\* days) or less is kept, and the labels are as stated
C11_BinEdges ==
  est.pc = "aged" =>
    /\ 4 * AgeDays(est.end_year, est.dob) <= 17 * 1461 => est.out = <<>>
    /\ AgeDays(est.end_year, est.dob) >= YearsOldDays(est.end_year, 18) =>
         /\ Len(est.out) = 1
         /\ AgeDays(est.end_year, est.dob) < YearsOldDays(est.end_year, 29) =>
              est.out[1].age_cat = "18-29"
         /\ AgeDays(est.end_year, est.dob) > YearsOldDays(est.end_year, 29) =>
              est.out[1].age_cat = "> 29"

----------------------------------------------------------------------------
(* Properties of concurrent get_synth calls (SpecConcurrent) *)

\* no two processes are writing the same file at once
NoInterleavedWrites ==
  \A p, q \in Procs :
    (p # q /\ proc[p].pc = "writing" /\ proc[q].pc = "writing") =>
      FilePath(proc[p].args) # FilePath(proc[q].args)

\* a table loaded from the file is the table computed for the parameters
NoPartialLoad ==
  \A p, q \in Procs :
    (/\ proc[p].hit /\ proc[p].status = "returned"
     /\ proc[q].computed /\ (proc[q].pc = "writing" \/ proc[q].status = "returned")
     /\ proc[q].args = proc[p].args) =>
      ToCsv(proc[p].ret) = ToCsv(proc[q].df)

\* C12 as stated: of get_synth calls with the same parameters running
\* concurrently, no two write the cache file at once, and none loads the
\* file while it is only partly written.
C12_AsStated == NoInterleavedWrites /\ NoPartialLoad

----------------------------------------------------------------------------
(* Properties of _window calls (SpecWindow) *)

\* C14 as stated: a call for a window end-year outside
\* [start_year, end_year] raises the usage error, no table of a provider
\* having been read.
C14_AsStated ==
  est.pc \in {"sampler", "raised"} =>
    \A i \in DOMAIN est.log :
      (est.log[i].window_end < est.args.start_year
       \/ est.log[i].window_end > est.args.end_year) =>
        /\ est.log[i].res.err = "ValueError"
        /\ est.log[i].res.melted = 0

\* what the bound of _window is: the window's first year,
\* window_end - window, is held to [start_year, end_year]
C14_FirstYearBound ==
  est.pc \in {"sampler", "raised"} =>
    \A i \in DOMAIN est.log :
      (est.log[i].window_end - est.args.window < est.args.start_year
       \/ est.log[i].window_end - est.args.window > est.args.end_year) =>
        /\ est.log[i].res.err = "ValueError"
        /\ est.log[i].res.melted = 0

\* the melted cohort table of a call
MeltedOf(e) == Melt(NeulawGen(world, e.window_end - est.args.window))

\* the (individual, offense category) cells of a call's result
CellsOf(out) ==
  SeqSum([i \in 1..Len(out) |-> Cardinality(DOMAIN out[i].totals)])

\* a rate table holds two rows for the grouping key of a group of the cohort
DuplicateRates(e) ==
  world.rates = "duplicate" /\ e.window_end - est.args.window > FirstYear

\* C15: in a call that gets past the bound, every melted row is in exactly
\* one of the two partitions; a call that returns a table has recombined as
\* many rows as it melted, and the table holds each melted (individual,
\* offense category) row once; a recombined row count that differs, as when
\* a rate table holds two rows for a grouping key, ends in an error, not in
\* a table.
C15_RowCount ==
  est.pc \in {"sampler", "raised"} =>
    \A i \in DOMAIN est.log :
      LET e == est.log[i]
          df == MeltedOf(e)
      IN  e.res.melted > 0 =>
            /\ e.res.melted = Len(df)
            /\ \A j \in DOMAIN df :
                 (df[j].cat \in {"dui", "drugs_use", "drugs_sell"}) <=>
                   df[j] \in Range(SelectSeq(df, IsNsduh))
            /\ Len(SelectSeq(df, IsNsduh)) + Len(SelectSeq(df, LAMBDA r : ~IsNsduh(r)))
                 = Len(df)
            /\ e.res.err = "" =>
                 /\ e.res.recombined = e.res.melted
                 /\ CellsOf(e.res.out) = e.res.melted
            /\ (e.res.recombined # 0 /\ e.res.recombined # e.res.melted) =>
                 /\ e.res.err = "RuntimeError"
                 /\ e.res.out = <<>>
            /\ DuplicateRates(e) => e.res.err = "RuntimeError"

\* a first call returned a table of as many cells as rows melted; the second
\* met a doubled rate row, recombined more rows than melted, and raised
C15_Witness ==
  /\ est.pc = "raised"
  /\ Len(est.log) = 2
  /\ est.log[1].res.err = "" /\ est.log[1].res.melted > 0
  /\ CellsOf(est.log[1].res.out) = est.log[1].res.melted
  /\ est.log[2].res.err = "RuntimeError"
  /\ est.log[2].res.recombined > est.log[2].res.melted

\* C16 as stated: the table a call gives for an end-year and n_samples_div
\* is the one the call gives on the sampler's stream as made from the seed,
\* whatever calls went before it.
C16_AsStated ==
  est.pc \in {"sampler", "raised"} =>
    \A i \in DOMAIN est.log :
      est.log[i].res.out =
        Window(est.args, est.log[i].window_end, est.log[i].n_samples_div,
               RandomState(est.args.seed), NeulawGen(world, est.log[i].window_end - est.args.window),
               NcvsGen(world, est.log[i].window_end - est.args.window),
               NsduhGen(world, est.log[i].window_end - est.args.window)).out

====
